---------------------------- MODULE Spec2Model ----------------------------
(***************************************************************************)
(* A model of easy-amm: the constant-product pricing functions, the Evt    *)
(* event raiser, the AutoNonceWallet nonce sequencer and the EasyAMMPair   *)
(* trading pair (quotes, order placement, refresh on chain ticks).         *)
(*                                                                         *)
(* Conventions.  A BigNumber is an integer.  A JavaScript number holding a *)
(* decimal amount is an exact rational [num, den] in lowest terms (the     *)
(* rounding of IEEE doubles is not modelled).  A call that throws returns  *)
(* the record Thrown; a call that returns v returns Ret(v).                *)
(***************************************************************************)
EXTENDS Integers, Sequences, FiniteSets, TLC

VARIABLES
    \* ---- pricing functions called on their own (utils.getAmountIn/Out)
    mIn,            \* the arguments: [amount, reserve_in, reserve_out, fee]
    mOp,            \* which function was applied, "none" before the call
    mOut,           \* what it returned (Ret(v)) or Thrown
    \* ---- Evt
    singleCallback, \* Evt._singleCallback: a handler, or Null
    multiCallback,  \* Evt._multiCallback: a sequence of handlers
    throwing,       \* the handlers whose body throws when invoked
    subscribers,    \* the subscriber list of the Change Notifier (ghost)
    evtLast,        \* the last trigger: value, subscribers then, invocations
    reentry,        \* the handler whose body calls on or off, and the call
    \* ---- AutoNonceWallet
    chainNonce,     \* what provider.getTransactionCount answers
    promises,       \* every promise made: [state, val, reactions]
    noncePromise,   \* AutoNonceWallet._noncePromise: a promise, or Null
    microtasks,     \* the engine's microtask queue (FIFO)
    calls,          \* the sendTransaction calls: [pc, awaits, nonce]
    fetches,        \* how many times getTransactionCount was asked
    \* ---- EasyAMMPair
    baseIsFirstToken,   \* EasyAMMPair._baseIsFirstToken
    pairFee,            \* EasyAMMPair._fee
    feeOmitted,         \* createEasyAMMPair was called without a fee argument
    slippageTolerance,  \* EasyAMMPair._slippageTolerance, a rational
    decimals,           \* [base, quote]: base.decimals and quote.decimals
    reserves,           \* EasyAMMPair._reserves: [reserve0, reserve1]
    price,              \* EasyAMMPair.price
    lastQuote,          \* the last quotePriceForAmount call and its result
    refreshes,          \* the ticks whose updatePrice awaits getReserves
    ticks,              \* how many "block" events were delivered
    published,          \* the prices NewPrice.trigger was called with
    errors,             \* how many times updatePrice logged an error
    order,              \* the placeOrder call: its locals and its position
    now,                \* the wall clock dayjs() reads, in minutes
    creation            \* the createEasyAMMPair call: its position and results

mathVars == <<mIn, mOp, mOut>>
evtVars == <<singleCallback, multiCallback, throwing, subscribers, evtLast,
             reentry>>
nonceVars == <<chainNonce, promises, noncePromise, microtasks, calls, fetches>>
pairVars == <<baseIsFirstToken, pairFee, feeOmitted, slippageTolerance, decimals,
              reserves, price, lastQuote, refreshes, ticks, published, errors,
              order, now, creation>>
vars == <<mathVars, evtVars, nonceVars, pairVars>>

Null == 0

---------------------------------------------------------------------------
(* Bounds of the model. *)
MaxAmount == 6          \* traded amounts are 1..MaxAmount
MaxReserve == 8         \* reserves are 0..MaxReserve
NumHandlers == 3        \* handlers are 1..NumHandlers
MaxSubs == 3            \* at most this many subscriptions at once
MaxCalls == 3           \* sendTransaction calls per wallet
MaxInitialNonce == 1    \* the chain's transaction count is 0..MaxInitialNonce
MaxDecimals == 1        \* token decimals are 0..MaxDecimals
PoolTotal == 3          \* on a chain tick the two reserves add up to PoolTotal
MaxTicks == 2           \* "block" events delivered to the pair
MaxOrderAmount == 2     \* placeOrder base amounts are 1..MaxOrderAmount
MaxAllowance == 3       \* allowances read are 0..MaxAllowance, or MaxUint256
MaxTime == 6            \* the wall clock runs from 0 to MaxTime minutes

(* Program constants. *)
FeeDenominator == 10000     \* the literal 10000 of getAmountIn/getAmountOut
UtilsDefaultFee == 9975     \* fee = 9975, the default of getAmountIn/Out
PairDefaultFee == 25        \* fee = 25, the default of createEasyAMMPair
PriceScaleDigits == 18      \* BigInt(1e18) of calcPriceFromReserves
DeadlineMinutes == 5        \* dayjs().add(5, "minutes") of placeOrder
MaxUint256 == -1            \* stands for 0xff...ff (2^256 - 1): compared as
                            \* larger than every amount, never computed with

---------------------------------------------------------------------------
(* Values. *)
Thrown == [ok |-> FALSE, val |-> 0]
Ret(v) == [ok |-> TRUE, val |-> v]

Abs(x) == IF x < 0 THEN -x ELSE x

(* BigNumber.div: the quotient truncated toward zero; a zero divisor throws *)
(* (the callers test for it before using BNDiv).                           *)
BNDiv(a, b) ==
    IF (a < 0) = (b < 0) THEN Abs(a) \div Abs(b) ELSE -(Abs(a) \div Abs(b))

---------------------------------------------------------------------------
(* utils.getAmountIn without the + 1 after the division *)
getAmountInNoPlusOne(amount_out, reserve_in, reserve_out, fee) ==
    LET numerator == reserve_in * amount_out * FeeDenominator
        denominator == (reserve_out - amount_out) * fee
    IN  IF denominator = 0 THEN Thrown
        ELSE Ret(BNDiv(numerator, denominator))

(* utils.getAmountIn with the operands of reserve_out.sub(amount_out)      *)
(* swapped                                                                 *)
getAmountInSubSwapped(amount_out, reserve_in, reserve_out, fee) ==
    LET numerator == reserve_in * amount_out * FeeDenominator
        denominator == (amount_out - reserve_out) * fee
    IN  IF denominator = 0 THEN Thrown
        ELSE Ret(BNDiv(numerator, denominator) + 1)

(* utils.getAmountIn *)
getAmountIn(amount_out, reserve_in, reserve_out, fee) ==
    LET numerator == reserve_in * amount_out * FeeDenominator
        denominator == (reserve_out - amount_out) * fee
    IN  IF denominator = 0 THEN Thrown
        ELSE Ret(BNDiv(numerator, denominator) + 1)

(* utils.getAmountOut *)
getAmountOut(amount_in, reserve_in, reserve_out, fee) ==
    LET amount_in_with_fee == amount_in * fee
        numerator == amount_in_with_fee * reserve_out
        denominator == reserve_in * FeeDenominator + amount_in_with_fee
    IN  IF denominator = 0 THEN Thrown
        ELSE Ret(BNDiv(numerator, denominator))

(* getAmountOut(getAmountIn(amount_out, ...), ...) with the same reserves *)
RoundTrip(amount_out, reserve_in, reserve_out, fee) ==
    LET in == getAmountIn(amount_out, reserve_in, reserve_out, fee)
    IN  IF in.ok THEN getAmountOut(in.val, reserve_in, reserve_out, fee)
        ELSE Thrown

Fees == {UtilsDefaultFee, PairDefaultFee}

MathInputs ==
    [amount : 1..MaxAmount, reserve_in : 0..MaxReserve,
     reserve_out : 0..MaxReserve, fee : Fees]

MathIdle == mIn = [amount |-> 1, reserve_in |-> 1, reserve_out |-> 1,
                   fee |-> UtilsDefaultFee]
            /\ mOp = "none" /\ mOut = Thrown

CallGetAmountIn ==
    /\ mOp = "none"
    /\ mOp' = "getAmountIn"
    /\ mOut' = getAmountIn(mIn.amount, mIn.reserve_in, mIn.reserve_out, mIn.fee)
    /\ UNCHANGED <<mIn, evtVars, nonceVars, pairVars>>

CallGetAmountOut ==
    /\ mOp = "none"
    /\ mOp' = "getAmountOut"
    /\ mOut' = getAmountOut(mIn.amount, mIn.reserve_in, mIn.reserve_out, mIn.fee)
    /\ UNCHANGED <<mIn, evtVars, nonceVars, pairVars>>

CallRoundTrip ==
    /\ mOp = "none"
    /\ mOp' = "roundTrip"
    /\ mOut' = RoundTrip(mIn.amount, mIn.reserve_in, mIn.reserve_out, mIn.fee)
    /\ UNCHANGED <<mIn, evtVars, nonceVars, pairVars>>

---------------------------------------------------------------------------
(* Evt *)
Handlers == 1..NumHandlers
Values == {1, 2}

(* _.pull(array, value): the array without any occurrence of value *)
Pull(array, value) == SelectSeq(array, LAMBDA x : x # value)

(* no handler calls on or off from its body *)
NoReentry == [actor |-> Null, op |-> "none", target |-> Null]

(* a handler whose body, the first time it is invoked, calls on(target) or *)
(* off(target) on the Evt that invoked it                                  *)
Reentries == [actor : Handlers, op : {"on", "off"}, target : Handlers]

EvtIdle == /\ singleCallback = Null /\ multiCallback = <<>>
           /\ throwing = {} /\ subscribers = <<>> /\ reentry = NoReentry
           /\ evtLast = [value |-> 0, before |-> <<>>, invoked |-> <<>>,
                         threw |-> FALSE]

(* Evt.on *)
On(handler) ==
    /\ Len(subscribers) < MaxSubs
    /\ IF singleCallback # Null
       THEN /\ multiCallback' = <<singleCallback, handler>>
            /\ singleCallback' = Null
       ELSE IF Len(multiCallback) > 0
       THEN /\ multiCallback' = Append(multiCallback, handler)
            /\ UNCHANGED singleCallback
       ELSE /\ singleCallback' = handler
            /\ UNCHANGED multiCallback
    /\ subscribers' = Append(subscribers, handler)
    /\ UNCHANGED <<throwing, evtLast, reentry, mathVars, nonceVars, pairVars>>

(* Evt.off, with the single-callback test left out *)
OffKeepsSingle(handler) ==
    /\ multiCallback' = IF Len(multiCallback) > 0
                        THEN Pull(multiCallback, handler) ELSE multiCallback
    /\ UNCHANGED singleCallback
    /\ subscribers' = Pull(subscribers, handler)
    /\ UNCHANGED <<throwing, evtLast, reentry, mathVars, nonceVars, pairVars>>

(* Evt.off *)
Off(handler) ==
    /\ multiCallback' = IF Len(multiCallback) > 0
                        THEN Pull(multiCallback, handler) ELSE multiCallback
    /\ singleCallback' = IF singleCallback = handler THEN Null
                         ELSE singleCallback
    /\ subscribers' = Pull(subscribers, handler)
    /\ UNCHANGED <<throwing, evtLast, reentry, mathVars, nonceVars, pairVars>>

(* Evt.on and Evt.off as a handler's body calls them: the fields (and the  *)
(* subscriber list) after the call                                         *)
onFields(st, handler) ==
    [st EXCEPT
       !.single = IF st.single # Null THEN Null
                  ELSE IF Len(st.multi) > 0 THEN st.single ELSE handler,
       !.multi = IF st.single # Null THEN <<st.single, handler>>
                 ELSE IF Len(st.multi) > 0 THEN Append(st.multi, handler)
                 ELSE st.multi,
       !.subs = Append(st.subs, handler)]

offFields(st, handler) ==
    [st EXCEPT
       !.single = IF st.single = handler THEN Null ELSE st.single,
       !.multi = IF Len(st.multi) > 0 THEN Pull(st.multi, handler)
                 ELSE st.multi,
       !.subs = Pull(st.subs, handler)]

(* the body of handler h has run: the reentrant handler has made its call  *)
Invoked(st, h) ==
    IF st.reentry.actor # h THEN st
    ELSE LET after == IF st.reentry.op = "on"
                      THEN onFields(st, st.reentry.target)
                      ELSE offFields(st, st.reentry.target)
         IN  [after EXCEPT !.reentry = NoReentry]

(* the for loop of Evt.trigger from index i, len being the length read     *)
(* before the loop: the handlers invoked, in order, the fields the         *)
(* handlers' calls leave, and whether the loop threw: a handler's body     *)
(* did, or this._multiCallback[i] was undefined when called                *)
RECURSIVE TriggerLoop(_, _, _, _, _)
TriggerLoop(st, i, len, data, invoked) ==
    IF i > len THEN [st |-> st, invoked |-> invoked, threw |-> FALSE]
    ELSE IF i > Len(st.multi)
    THEN [st |-> st, invoked |-> invoked, threw |-> TRUE]
    ELSE LET call == [handler |-> st.multi[i], data |-> data]
         IN  IF st.multi[i] \in throwing
             THEN [st |-> st, invoked |-> Append(invoked, call),
                   threw |-> TRUE]
             ELSE TriggerLoop(Invoked(st, st.multi[i]), i + 1, len, data,
                              Append(invoked, call))

(* Evt.trigger *)
Trigger(data) ==
    /\ LET st == [single |-> singleCallback, multi |-> multiCallback,
                  subs |-> subscribers, reentry |-> reentry]
           call == [handler |-> singleCallback, data |-> data]
           run == IF singleCallback # Null
                  THEN IF singleCallback \in throwing
                       THEN [st |-> st, invoked |-> <<call>>, threw |-> TRUE]
                       ELSE [st |-> Invoked(st, singleCallback),
                             invoked |-> <<call>>, threw |-> FALSE]
                  ELSE TriggerLoop(st, 1, Len(multiCallback), data, <<>>)
       IN  /\ evtLast' = [value |-> data, before |-> subscribers,
                          invoked |-> run.invoked, threw |-> run.threw]
           /\ singleCallback' = run.st.single
           /\ multiCallback' = run.st.multi
           /\ subscribers' = run.st.subs
           /\ reentry' = run.st.reentry
    /\ UNCHANGED <<throwing, mathVars, nonceVars, pairVars>>

---------------------------------------------------------------------------
(* AutoNonceWallet *)
NonceIdle == /\ chainNonce = 0 /\ promises = <<>> /\ noncePromise = Null
             /\ microtasks = <<>> /\ fetches = 0
             /\ calls = [c \in 1..MaxCalls |->
                            [pc |-> "idle", awaits |-> Null, nonce |-> -1]]

Pending == [state |-> "pending", val |-> 0, reactions |-> <<>>]
Job(kind, id, from) == [kind |-> kind, id |-> id, from |-> from]

(* registering a reaction on promise p (await p, or p.then(f)): it waits   *)
(* in p's reaction list while p is pending, and is queued as a microtask   *)
(* at once when p is already settled.  ps and queue are the promises and   *)
(* the microtask queue to extend.                                          *)
React(ps, queue, p, job) ==
    IF ps[p].state = "pending"
    THEN [ps |-> [ps EXCEPT ![p].reactions = Append(@, job)], queue |-> queue]
    ELSE [ps |-> ps, queue |-> Append(queue, job)]

(* settling promise p: its reactions are queued in registration order *)
Settle(ps, queue, p, state, val) ==
    [ps |-> [ps EXCEPT ![p] = [state |-> state, val |-> val,
                               reactions |-> <<>>]],
     queue |-> queue \o ps[p].reactions]

(* sendTransaction up to its await, asking for the transaction count on    *)
(* every call instead of only while _noncePromise is null                  *)
SendStartAlwaysFetches(c) ==
    /\ calls[c].pc = "idle"
    /\ \A d \in 1..(c - 1) : calls[d].pc # "idle"
    /\ LET ps0 == Append(promises, Pending)
           np == Len(promises) + 1
           r == React(ps0, microtasks, np, Job("resume", c, np))
       IN  /\ promises' = r.ps
           /\ microtasks' = r.queue
           /\ noncePromise' = np
           /\ fetches' = fetches + 1
           /\ calls' = [calls EXCEPT ![c] = [pc |-> "awaiting", awaits |-> np,
                                            nonce |-> -1]]
    /\ UNCHANGED <<chainNonce, mathVars, evtVars, pairVars>>

(* sendTransaction up to its await: the lazy fetch, then await             *)
SendStart(c) ==
    /\ calls[c].pc = "idle"
    /\ \A d \in 1..(c - 1) : calls[d].pc # "idle"
    /\ LET fresh == noncePromise = Null
           ps0 == IF fresh THEN Append(promises, Pending) ELSE promises
           np == IF fresh THEN Len(promises) + 1 ELSE noncePromise
           r == React(ps0, microtasks, np, Job("resume", c, np))
       IN  /\ promises' = r.ps
           /\ microtasks' = r.queue
           /\ noncePromise' = np
           /\ fetches' = IF fresh THEN fetches + 1 ELSE fetches
           /\ calls' = [calls EXCEPT ![c] = [pc |-> "awaiting", awaits |-> np,
                                            nonce |-> -1]]
    /\ UNCHANGED <<chainNonce, mathVars, evtVars, pairVars>>

(* provider.getTransactionCount answers, or fails *)
FetchSettle(ok) ==
    /\ microtasks = <<>>
    /\ Len(promises) >= 1 /\ promises[1].state = "pending"
    /\ LET r == Settle(promises, microtasks, 1,
                       IF ok THEN "fulfilled" ELSE "rejected",
                       IF ok THEN chainNonce ELSE 0)
       IN  promises' = r.ps /\ microtasks' = r.queue
    /\ UNCHANGED <<chainNonce, noncePromise, calls, fetches, mathVars, evtVars,
                   pairVars>>

(* sendTransaction after its await: the nonce is the awaited value, the   *)
(* shared promise is replaced by its own .then, the broadcast starts       *)
ResumeSend(c, p) ==
    IF promises[p].state = "rejected"
    THEN /\ calls' = [calls EXCEPT ![c].pc = "failed"]
         /\ microtasks' = Tail(microtasks)
         /\ UNCHANGED <<promises, noncePromise>>
    ELSE LET k == Len(promises) + 1
             r == React(Append(promises, Pending), Tail(microtasks),
                        noncePromise, Job("then", k, noncePromise))
         IN  /\ calls' = [calls EXCEPT ![c].pc = "broadcast",
                                       ![c].nonce = promises[p].val]
             /\ promises' = r.ps
             /\ microtasks' = r.queue
             /\ noncePromise' = k

(* the reaction of _noncePromise.then((nonce) => nonce + 1): promise k     *)
(* settles from promise p                                                  *)
ThenPlusOne(k, p) ==
    LET r == IF promises[p].state = "rejected"
             THEN Settle(promises, Tail(microtasks), k, "rejected", 0)
             ELSE Settle(promises, Tail(microtasks), k, "fulfilled",
                         promises[p].val + 1)
    IN  /\ promises' = r.ps
        /\ microtasks' = r.queue
        /\ UNCHANGED <<noncePromise, calls>>

(* the engine runs the first microtask of its queue *)
RunMicrotask ==
    /\ microtasks # <<>>
    /\ LET job == Head(microtasks)
       IN  IF job.kind = "resume" THEN ResumeSend(job.id, job.from)
           ELSE ThenPlusOne(job.id, job.from)
    /\ UNCHANGED <<chainNonce, fetches, mathVars, evtVars, pairVars>>

(* super.sendTransaction: the broadcast succeeds or fails *)
Broadcast(c, ok) ==
    /\ microtasks = <<>>
    /\ calls[c].pc = "broadcast"
    /\ calls' = [calls EXCEPT ![c].pc = IF ok THEN "sent" ELSE "failed"]
    /\ UNCHANGED <<chainNonce, promises, noncePromise, microtasks, fetches,
                   mathVars, evtVars, pairVars>>

---------------------------------------------------------------------------
(* Rationals: the JavaScript numbers of the pair, exactly. *)
RECURSIVE GCD(_, _)
GCD(a, b) == IF b = 0 THEN a ELSE GCD(b, a % b)

(* n / d in lowest terms, d > 0 *)
Rat(n, d) ==
    LET g == GCD(Abs(n), d)
    IN  IF n = 0 THEN [num |-> 0, den |-> 1]
        ELSE [num |-> IF n < 0 THEN -(Abs(n) \div g) ELSE n \div g,
              den |-> d \div g]

RatAdd(a, b) == Rat(a.num * b.den + b.num * a.den, a.den * b.den)
RatMul(a, b) == Rat(a.num * b.num, a.den * b.den)
RatMulInt(a, k) == Rat(a.num * k, a.den)
RatDivInt(a, k) == Rat(a.num, a.den * k)
RatLess(a, b) == a.num * b.den < b.num * a.den
One == [num |-> 1, den |-> 1]

RECURSIVE Pow10(_)
Pow10(n) == IF n = 0 THEN 1 ELSE 10 * Pow10(n - 1)

(* Utils.toBigNumber(amount, decimals), for a whole amount *)
toBigNumber(amount, dec) == amount * Pow10(dec)

(* Utils.fromBigNumber(wei, decimals) *)
fromBigNumber(wei, dec) == Rat(wei, Pow10(dec))

(* the first n digits after the point of r / d, for 0 <= r < d *)
RECURSIVE FractionDigits(_, _, _)
FractionDigits(r, d, n) ==
    IF n = 0 THEN <<>>
    ELSE <<(r * 10) \div d>> \o FractionDigits((r * 10) % d, d, n - 1)

(* utils.calcPriceFromReserves: a.mul(1e18).div(b) formatted with          *)
(* `decimals` decimals, as the quotient's whole part, its 18 next digits   *)
(* and the number of decimals the point is moved by; b = 0 throws          *)
calcPriceFromReserves(rs, is_token0, dec) ==
    LET a == IF is_token0 THEN rs.reserve1 ELSE rs.reserve0
        b == IF is_token0 THEN rs.reserve0 ELSE rs.reserve1
    IN  IF b = 0 THEN Thrown
        ELSE Ret([whole |-> a \div b,
                  digits |-> FractionDigits(a % b, b, PriceScaleDigits),
                  decimals |-> dec])

Sides == {"buy", "sell"}

(* EasyAMMPair.applySlippage with sign * 2 in place of sign *)
applySlippageTwice(amount, sign) ==
    RatMul(amount, RatAdd(One, RatMulInt(slippageTolerance, 2 * sign)))

(* EasyAMMPair.applySlippage *)
applySlippage(amount, sign) ==
    RatMul(amount, RatAdd(One, RatMulInt(slippageTolerance, sign)))

(* EasyAMMPair.quotePriceForAmount *)
quotePriceForAmount(baseAmount, side) ==
    LET amountWei == toBigNumber(baseAmount, decimals.base)
    IN  IF side = "buy"
        THEN LET amountInWei ==
                     getAmountIn(amountWei,
                                 IF baseIsFirstToken THEN reserves.reserve1
                                                     ELSE reserves.reserve0,
                                 IF baseIsFirstToken THEN reserves.reserve0
                                                     ELSE reserves.reserve1,
                                 pairFee)
             IN  IF ~amountInWei.ok THEN Thrown
                 ELSE Ret(RatDivInt(
                          applySlippage(fromBigNumber(amountInWei.val,
                                                      decimals.quote), 1),
                          baseAmount))
        ELSE LET amountOutWei ==
                     getAmountOut(amountWei,
                                  IF baseIsFirstToken THEN reserves.reserve0
                                                      ELSE reserves.reserve1,
                                  IF baseIsFirstToken THEN reserves.reserve1
                                                      ELSE reserves.reserve0,
                                  pairFee)
             IN  IF ~amountOutWei.ok THEN Thrown
                 ELSE Ret(RatDivInt(
                          applySlippage(fromBigNumber(amountOutWei.val,
                                                      decimals.quote), -1),
                          baseAmount))

NoQuote == [amount |-> 0, side |-> "none", result |-> Thrown]
NoOrder == [pc |-> "idle", side |-> "none", baseAmount |-> 0,
            quoteAmount |-> One, allowanceRead |-> FALSE, allowance |-> 0,
            waited |-> FALSE, failedAt |-> "", txs |-> <<>>,
            calledAt |-> 0, deadline |-> 0, sentAt |-> 0]

(* the discovery calls of createEasyAMMPair: those on the pair contract,   *)
(* then createEasyERC20's on token0, then createEasyERC20's on token1      *)
PairCalls == {"token0", "token1", "getReserves"}
Token0Calls == {"symbol0", "decimals0", "balanceOf0"}
Token1Calls == {"symbol1", "decimals1", "balanceOf1"}
DiscoveryCalls == PairCalls \cup Token0Calls \cup Token1Calls

NoPair == [made |-> FALSE, reserves |-> [reserve0 |-> 0, reserve1 |-> 0],
           baseIsFirstToken |-> FALSE,
           price |-> [whole |-> 0, digits |-> <<>>, decimals |-> 0]]

(* createEasyAMMPair before it is called: nothing asked, no EasyERC20      *)
(* constructed, no pair returned                                           *)
NoCreation == [pc |-> "idle", pending |-> {}, answered |-> {}, failed |-> {},
               reserves |-> [reserve0 |-> 0, reserve1 |-> 0],
               baseFirst |-> FALSE, tokens |-> 0, pair |-> NoPair]

PairIdle ==
    /\ baseIsFirstToken = TRUE /\ pairFee = UtilsDefaultFee /\ feeOmitted = FALSE
    /\ slippageTolerance = One /\ decimals = [base |-> 0, quote |-> 0]
    /\ reserves = [reserve0 |-> 1, reserve1 |-> 1]
    /\ price = [whole |-> 0, digits |-> <<>>, decimals |-> 0]
    /\ lastQuote = NoQuote /\ refreshes = {} /\ ticks = 0
    /\ published = <<>> /\ errors = 0 /\ order = NoOrder /\ now = 0
    /\ creation = NoCreation

(* slippageTolerancePercent = 0.25, the default of createEasyAMMPair *)
DefaultSlippagePercent == Rat(25, 100)

(* createEasyAMMPair, once every discovery call has answered: the fee and  *)
(* slippage arguments or their defaults (the slippage a percentage,        *)
(* divided by 100), the tokens' decimals, the reserves read, the price     *)
(* computed from them (which must not throw)                               *)
Created(reserveSet, decimalSet, percentSet) ==
    /\ baseIsFirstToken \in BOOLEAN
    /\ feeOmitted \in BOOLEAN
    /\ pairFee = IF feeOmitted THEN PairDefaultFee ELSE UtilsDefaultFee
    /\ slippageTolerance \in {RatDivInt(pc, 100) : pc \in percentSet}
    /\ decimals \in decimalSet
    /\ reserves \in reserveSet
    /\ calcPriceFromReserves(reserves, baseIsFirstToken, decimals.base).ok
    /\ price = calcPriceFromReserves(reserves, baseIsFirstToken,
                                     decimals.base).val
    /\ lastQuote = NoQuote /\ refreshes = {} /\ ticks = 0
    /\ published = <<>> /\ errors = 0 /\ order = NoOrder /\ now = 0
    /\ creation = NoCreation

(* a caller reads pair.quotePriceForAmount(baseAmount, side) *)
QuotePrice(baseAmount, side) ==
    /\ lastQuote' = [amount |-> baseAmount, side |-> side,
                     result |-> quotePriceForAmount(baseAmount, side)]
    /\ UNCHANGED <<baseIsFirstToken, pairFee, feeOmitted, slippageTolerance,
                   decimals, reserves, price, refreshes, ticks, published,
                   errors, order, now, creation, mathVars, evtVars,
                   nonceVars>>

(* ---- updatePrice, the pair's handler of the provider's "block" event *)

(* the reserves a getReserves call may answer on a chain tick *)
TickReserves ==
    {rs \in [reserve0 : 0..PoolTotal, reserve1 : 0..PoolTotal] :
        rs.reserve0 + rs.reserve1 = PoolTotal}

orderAndQuote == <<order, lastQuote>>
pairConfig == <<baseIsFirstToken, pairFee, feeOmitted, slippageTolerance,
                decimals>>

(* a "block" event: updatePrice starts and suspends on getReserves *)
BlockTick ==
    /\ ticks < MaxTicks
    /\ ticks' = ticks + 1
    /\ refreshes' = refreshes \cup {ticks + 1}
    /\ UNCHANGED <<pairConfig, reserves, price, published, errors,
                   orderAndQuote, now, creation, mathVars, evtVars,
                   nonceVars>>

(* updatePrice storing only reserve0 of the answer *)
RefreshCompleteOneField(t, ok, resp) ==
    /\ t \in refreshes
    /\ refreshes' = refreshes \ {t}
    /\ IF ~ok
       THEN /\ errors' = errors + 1
            /\ UNCHANGED <<reserves, price, published>>
       ELSE LET p == calcPriceFromReserves(resp, baseIsFirstToken,
                                           decimals.base)
            IN  /\ reserves' = [reserves EXCEPT !.reserve0 = resp.reserve0]
                /\ IF p.ok
                   THEN /\ price' = p.val
                        /\ published' = Append(published, p.val)
                        /\ UNCHANGED errors
                   ELSE /\ errors' = errors + 1
                        /\ UNCHANGED <<price, published>>
    /\ UNCHANGED <<pairConfig, ticks, orderAndQuote, now, creation, mathVars,
                   evtVars, nonceVars>>

(* the getReserves call of tick t answers resp (ok) or fails: the rest of  *)
(* updatePrice runs. On an answer _reserves is assigned first;             *)
(* calcPriceFromReserves may then throw into the catch block, which logs   *)
RefreshComplete(t, ok, resp) ==
    /\ t \in refreshes
    /\ refreshes' = refreshes \ {t}
    /\ IF ~ok
       THEN /\ errors' = errors + 1
            /\ UNCHANGED <<reserves, price, published>>
       ELSE LET p == calcPriceFromReserves(resp, baseIsFirstToken,
                                           decimals.base)
            IN  /\ reserves' = resp
                /\ IF p.ok
                   THEN /\ price' = p.val
                        /\ published' = Append(published, p.val)
                        /\ UNCHANGED errors
                   ELSE /\ errors' = errors + 1
                        /\ UNCHANGED <<price, published>>
    /\ UNCHANGED <<pairConfig, ticks, orderAndQuote, now, creation, mathVars,
                   evtVars, nonceVars>>

(* ---- placeOrder *)

AllowanceValues == (0..MaxAllowance) \cup {MaxUint256}

(* the amount and the token placeOrder hands to approve *)
SpendAmount(o) ==
    IF o.side = "buy" THEN o.quoteAmount ELSE Rat(o.baseAmount, 1)
SpendToken(o) == IF o.side = "buy" THEN "quote" ELSE "base"

(* `allowance < amount` of EasyAMMPair.approve, allowance being the raw    *)
(* value read, converted with the token's decimals                         *)
AllowanceTooLow(raw, dec, amount) ==
    IF raw = MaxUint256 THEN FALSE
    ELSE RatLess(fromBigNumber(raw, dec), amount)

(* the value EasyERC20.approve(spender, amount = 0) encodes *)
ApproveValue(amount, dec) ==
    IF amount = 0 THEN MaxUint256 ELSE toBigNumber(amount, dec)

Failed(o, at) == [o EXCEPT !.pc = "failed", !.failedAt = at]

orderFrame == <<pairConfig, reserves, price, lastQuote, refreshes, ticks,
                published, errors, now, creation, mathVars, evtVars,
                nonceVars>>

(* a minute passes *)
ClockTick ==
    /\ now < MaxTime
    /\ now' = now + 1
    /\ UNCHANGED <<pairConfig, reserves, price, lastQuote, refreshes, ticks,
                   published, errors, order, creation, mathVars, evtVars,
                   nonceVars>>

(* placeOrder is called: the quote, the deadline, then approve's allowance *)
(* read starts                                                             *)
PlaceOrder(baseAmount, side) ==
    /\ order.pc \in {"idle", "done", "failed"}
    /\ LET q == quotePriceForAmount(baseAmount, side)
           o == [NoOrder EXCEPT !.side = side, !.baseAmount = baseAmount,
                                !.calledAt = now]
       IN  order' = IF ~q.ok THEN Failed(o, "quote")
                    ELSE [o EXCEPT !.pc = "allowance",
                                   !.quoteAmount = RatMulInt(q.val, baseAmount),
                                   !.deadline = now + DeadlineMinutes]
    /\ UNCHANGED orderFrame

(* approve after token.allowance: the test, with <= in place of < *)
AllowanceAnswerOrEqual(ok, raw) ==
    /\ order.pc = "allowance"
    /\ order' =
         IF ~ok THEN Failed(order, "allowance")
         ELSE [order EXCEPT
                 !.allowanceRead = TRUE, !.allowance = raw,
                 !.pc = IF ~AllowanceTooLow(raw, decimals[SpendToken(order)],
                                            SpendAmount(order))
                           /\ fromBigNumber(raw, decimals[SpendToken(order)])
                                # SpendAmount(order)
                        THEN "swapPopulate" ELSE "approveSend"]
    /\ UNCHANGED orderFrame

(* approve after token.allowance answered (ok, with the raw allowance) or  *)
(* failed                                                                  *)
AllowanceAnswer(ok, raw) ==
    /\ order.pc = "allowance"
    /\ order' =
         IF ~ok THEN Failed(order, "allowance")
         ELSE [order EXCEPT
                 !.allowanceRead = TRUE, !.allowance = raw,
                 !.pc = IF AllowanceTooLow(raw, decimals[SpendToken(order)],
                                           SpendAmount(order))
                        THEN "approveSend" ELSE "swapPopulate"]
    /\ UNCHANGED orderFrame

ApprovalTx(o) ==
    [kind |-> "approve", token |-> SpendToken(o), spender |-> "router",
     value |-> ApproveValue(0, decimals[SpendToken(o)])]

(* approve after token.approve(router), the wait for inclusion left out *)
ApproveSendNoWait(ok) ==
    /\ order.pc = "approveSend"
    /\ order' = IF ~ok THEN Failed(order, "approveSend")
                ELSE [order EXCEPT !.pc = "swapPopulate",
                                   !.txs = Append(@, ApprovalTx(order))]
    /\ UNCHANGED orderFrame

(* approve after token.approve(router): the approval was sent (ok), or     *)
(* building or sending it failed                                           *)
ApproveSend(ok) ==
    /\ order.pc = "approveSend"
    /\ order' = IF ~ok THEN Failed(order, "approveSend")
                ELSE [order EXCEPT !.pc = "approveWait",
                                   !.txs = Append(@, ApprovalTx(order))]
    /\ UNCHANGED orderFrame

(* approve after tx.wait(): the approval was included (ok) or was not *)
ApproveWait(ok) ==
    /\ order.pc = "approveWait"
    /\ order' = IF ~ok THEN Failed(order, "approveWait")
                ELSE [order EXCEPT !.pc = "swapPopulate", !.waited = TRUE]
    /\ UNCHANGED orderFrame

(* the swap with the path of the other side *)
SwapTxOtherPath(o) ==
    IF o.side = "buy"
    THEN [kind |-> "swapTokensForExactTokens", first |-> o.baseAmount,
          second |-> o.quoteAmount, path |-> <<"base", "quote">>,
          to |-> "wallet", deadline |-> o.deadline]
    ELSE [kind |-> "swapExactTokensForTokens", first |-> o.baseAmount,
          second |-> o.quoteAmount, path |-> <<"quote", "base">>,
          to |-> "wallet", deadline |-> o.deadline]

(* the swap with the quoted amount computed again when the swap is built   *)
SwapTxRequoted(o) ==
    LET q == quotePriceForAmount(o.baseAmount, o.side)
        again == IF q.ok THEN RatMulInt(q.val, o.baseAmount) ELSE o.quoteAmount
    IN  IF o.side = "buy"
        THEN [kind |-> "swapTokensForExactTokens", first |-> o.baseAmount,
              second |-> again, path |-> <<"quote", "base">>,
              to |-> "wallet", deadline |-> o.deadline]
        ELSE [kind |-> "swapExactTokensForTokens", first |-> o.baseAmount,
              second |-> again, path |-> <<"base", "quote">>,
              to |-> "wallet", deadline |-> o.deadline]

(* the swap with the deadline computed when the swap is built *)
SwapTxDeadlineAtSwap(o) ==
    IF o.side = "buy"
    THEN [kind |-> "swapTokensForExactTokens", first |-> o.baseAmount,
          second |-> o.quoteAmount, path |-> <<"quote", "base">>,
          to |-> "wallet", deadline |-> now + DeadlineMinutes]
    ELSE [kind |-> "swapExactTokensForTokens", first |-> o.baseAmount,
          second |-> o.quoteAmount, path |-> <<"base", "quote">>,
          to |-> "wallet", deadline |-> now + DeadlineMinutes]

(* the swap placeOrder builds: the router method, its two amounts, the     *)
(* path, the recipient and the deadline                                    *)
SwapTx(o) ==
    IF o.side = "buy"
    THEN [kind |-> "swapTokensForExactTokens", first |-> o.baseAmount,
          second |-> o.quoteAmount, path |-> <<"quote", "base">>,
          to |-> "wallet", deadline |-> o.deadline]
    ELSE [kind |-> "swapExactTokensForTokens", first |-> o.baseAmount,
          second |-> o.quoteAmount, path |-> <<"base", "quote">>,
          to |-> "wallet", deadline |-> o.deadline]

(* placeOrder after router.populateTransaction.swap... *)
SwapPopulate(ok) ==
    /\ order.pc = "swapPopulate"
    /\ order' = IF ~ok THEN Failed(order, "swapPopulate")
                ELSE [order EXCEPT !.pc = "swapSend"]
    /\ UNCHANGED orderFrame

(* placeOrder's wallet.sendTransaction(tx): the swap is submitted, and the *)
(* call returns its pending transaction (ok) or fails                      *)
SwapSend(ok) ==
    /\ order.pc = "swapSend"
    /\ order' = [order EXCEPT !.pc = IF ok THEN "done" ELSE "failed",
                              !.failedAt = IF ok THEN "" ELSE "swapSend",
                              !.txs = Append(@, SwapTx(order)),
                              !.sentAt = now]
    /\ UNCHANGED orderFrame

(* ---- createEasyAMMPair (tokens of zero decimals) *)

(* createEasyAMMPair is called: token0(), token1() and getReserves() are   *)
(* asked together and awaited with Promise.all                             *)
CreateStart ==
    /\ creation.pc = "idle"
    /\ creation' = [creation EXCEPT !.pc = "pair", !.pending = PairCalls]
    /\ UNCHANGED <<pairConfig, reserves, price, lastQuote, refreshes, ticks,
                   published, errors, order, now, mathVars, evtVars,
                   nonceVars>>

(* a discovery call answers, a rejected call counted as an answer (the     *)
(* Promise.all of its group taken for Promise.allSettled)                  *)
DiscoveryAnswerAllSettled(call, ok, rs, first) ==
    /\ call \in creation.pending
    /\ LET c == [creation EXCEPT !.pending = @ \ {call},
                                 !.failed = IF ok THEN @ ELSE @ \cup {call}]
           got == [c EXCEPT
                     !.answered = @ \cup {call},
                     !.reserves = IF call = "getReserves" THEN rs ELSE @,
                     !.baseFirst = IF call = "symbol0" THEN first ELSE @]
           p == calcPriceFromReserves(got.reserves, got.baseFirst, 0)
       IN  creation' =
             IF c.pc = "failed" THEN got
             ELSE IF c.pc = "pair" /\ PairCalls \subseteq got.answered
             THEN [got EXCEPT !.pc = "token0", !.pending = Token0Calls]
             ELSE IF c.pc = "token0" /\ Token0Calls \subseteq got.answered
             THEN [got EXCEPT !.pc = "token1", !.pending = Token1Calls,
                              !.tokens = @ + 1]
             ELSE IF c.pc = "token1" /\ Token1Calls \subseteq got.answered
             THEN IF ~p.ok
                  THEN [got EXCEPT !.pc = "failed", !.tokens = @ + 1]
                  ELSE [got EXCEPT
                          !.pc = "returned", !.tokens = @ + 1,
                          !.pair = [made |-> TRUE, reserves |-> got.reserves,
                                    baseIsFirstToken |-> got.baseFirst,
                                    price |-> p.val]]
             ELSE got
    /\ UNCHANGED <<pairConfig, reserves, price, lastQuote, refreshes, ticks,
                   published, errors, order, now, mathVars, evtVars,
                   nonceVars>>

(* a discovery call answers (ok; getReserves with rs, symbol0 with whether *)
(* it is the base symbol) or fails.  The Promise.all awaited rejects on    *)
(* the first failure, which fails createEasyAMMPair; when the last call of *)
(* a group has answered the function runs on to its next await:            *)
(* createEasyERC20 for token0, then for token1 (each constructing an       *)
(* EasyERC20 once its calls answered), then the price and the pair         *)
DiscoveryAnswer(call, ok, rs, first) ==
    /\ call \in creation.pending
    /\ LET c == [creation EXCEPT !.pending = @ \ {call}]
           got == [c EXCEPT
                     !.answered = @ \cup {call},
                     !.reserves = IF call = "getReserves" THEN rs ELSE @,
                     !.baseFirst = IF call = "symbol0" THEN first ELSE @]
           p == calcPriceFromReserves(got.reserves, got.baseFirst, 0)
       IN  creation' =
             IF ~ok
             THEN [c EXCEPT !.pc = "failed", !.failed = @ \cup {call}]
             ELSE IF c.pc = "failed" THEN got
             ELSE IF c.pc = "pair" /\ PairCalls \subseteq got.answered
             THEN [got EXCEPT !.pc = "token0", !.pending = Token0Calls]
             ELSE IF c.pc = "token0" /\ Token0Calls \subseteq got.answered
             THEN [got EXCEPT !.pc = "token1", !.pending = Token1Calls,
                              !.tokens = @ + 1]
             ELSE IF c.pc = "token1" /\ Token1Calls \subseteq got.answered
             THEN IF ~p.ok
                  THEN [got EXCEPT !.pc = "failed", !.tokens = @ + 1]
                  ELSE [got EXCEPT
                          !.pc = "returned", !.tokens = @ + 1,
                          !.pair = [made |-> TRUE, reserves |-> got.reserves,
                                    baseIsFirstToken |-> got.baseFirst,
                                    price |-> p.val]]
             ELSE got
    /\ UNCHANGED <<pairConfig, reserves, price, lastQuote, refreshes, ticks,
                   published, errors, order, now, mathVars, evtVars,
                   nonceVars>>

---------------------------------------------------------------------------
InitMath == mIn \in MathInputs /\ mOp = "none" /\ mOut = Thrown
            /\ EvtIdle /\ NonceIdle /\ PairIdle

NextMath == CallGetAmountIn \/ CallGetAmountOut \/ CallRoundTrip

SpecMath == InitMath /\ [][NextMath]_vars

InitEvt == /\ MathIdle /\ NonceIdle /\ PairIdle
           /\ singleCallback = Null /\ multiCallback = <<>>
           /\ throwing \in SUBSET Handlers /\ subscribers = <<>>
           /\ reentry = NoReentry
           /\ evtLast = [value |-> 0, before |-> <<>>, invoked |-> <<>>,
                         threw |-> FALSE]

NextEvt == \/ \E h \in Handlers : On(h)
           \/ \E h \in Handlers : Off(h)
           \/ \E v \in Values : Trigger(v)

SpecEvt == InitEvt /\ [][NextEvt]_vars

(* an Evt one of whose handlers calls on or off from its body; no handler  *)
(* throws                                                                  *)
InitReentrant == /\ MathIdle /\ NonceIdle /\ PairIdle
                 /\ singleCallback = Null /\ multiCallback = <<>>
                 /\ throwing = {} /\ subscribers = <<>>
                 /\ reentry \in Reentries
                 /\ evtLast = [value |-> 0, before |-> <<>>,
                               invoked |-> <<>>, threw |-> FALSE]

SpecReentrant == InitReentrant /\ [][NextEvt]_vars

AllReserves == [reserve0 : 0..MaxReserve, reserve1 : 0..MaxReserve]
AllDecimals == [base : 0..MaxDecimals, quote : 0..MaxDecimals]

InitQuote == /\ MathIdle /\ EvtIdle /\ NonceIdle
             /\ Created(AllReserves, AllDecimals,
                        {DefaultSlippagePercent, Rat(1, 1)})

NextQuote == \E a \in 1..MaxAmount, side \in Sides : QuotePrice(a, side)

SpecQuote == InitQuote /\ [][NextQuote]_vars

InitPair == /\ MathIdle /\ EvtIdle /\ NonceIdle
            /\ Created(TickReserves, {[base |-> 0, quote |-> MaxDecimals]},
                       {DefaultSlippagePercent})

NextPair == \/ BlockTick
            \/ \E t \in 1..MaxTicks, resp \in TickReserves :
                  RefreshComplete(t, TRUE, resp)
            \/ \E t \in 1..MaxTicks :
                  RefreshComplete(t, FALSE, reserves)
            \/ \E a \in 1..MaxOrderAmount, side \in Sides : PlaceOrder(a, side)
            \/ \E ok \in BOOLEAN, raw \in AllowanceValues :
                  AllowanceAnswer(ok, raw)
            \/ \E ok \in BOOLEAN : ApproveSend(ok)
            \/ \E ok \in BOOLEAN : ApproveWait(ok)
            \/ \E ok \in BOOLEAN : SwapPopulate(ok)
            \/ \E ok \in BOOLEAN : SwapSend(ok)

SpecPair == InitPair /\ [][NextPair]_vars

(* placeOrder while the wall clock runs *)
NextDeadline ==
    \/ ClockTick
    \/ \E a \in 1..MaxOrderAmount, side \in Sides : PlaceOrder(a, side)
    \/ \E ok \in BOOLEAN, raw \in AllowanceValues : AllowanceAnswer(ok, raw)
    \/ \E ok \in BOOLEAN : ApproveSend(ok)
    \/ \E ok \in BOOLEAN : ApproveWait(ok)
    \/ \E ok \in BOOLEAN : SwapPopulate(ok)
    \/ \E ok \in BOOLEAN : SwapSend(ok)

SpecDeadline == InitPair /\ [][NextDeadline]_vars

InitCreate == /\ MathIdle /\ EvtIdle /\ NonceIdle /\ PairIdle

NextCreate ==
    \/ CreateStart
    \/ \E call \in DiscoveryCalls, ok \in BOOLEAN, rs \in TickReserves,
          first \in BOOLEAN : DiscoveryAnswer(call, ok, rs, first)

SpecCreate == InitCreate /\ [][NextCreate]_vars

InitNonce == /\ MathIdle /\ EvtIdle /\ PairIdle
             /\ chainNonce \in 0..MaxInitialNonce
             /\ promises = <<>> /\ noncePromise = Null
             /\ microtasks = <<>> /\ fetches = 0
             /\ calls = [c \in 1..MaxCalls |->
                            [pc |-> "idle", awaits |-> Null, nonce |-> -1]]

NextNonce == \/ \E c \in 1..MaxCalls : SendStart(c)
             \/ \E ok \in BOOLEAN : FetchSettle(ok)
             \/ RunMicrotask
             \/ \E c \in 1..MaxCalls, ok \in BOOLEAN : Broadcast(c, ok)

SpecNonce == InitNonce /\ [][NextNonce]_vars

---------------------------------------------------------------------------
(* Properties of the pricing functions (SpecMath). *)

(* C4: getAmountIn rejects whenever reserveOut <= amountOut, and both      *)
(* getAmountIn and getAmountOut reject whenever either reserve is zero.    *)
C4_RejectsInsufficientLiquidity ==
    /\ (/\ mOp = "getAmountIn"
        /\ \/ mIn.reserve_out <= mIn.amount
           \/ mIn.reserve_in = 0
           \/ mIn.reserve_out = 0) => ~mOut.ok
    /\ (/\ mOp = "getAmountOut"
        /\ (mIn.reserve_in = 0 \/ mIn.reserve_out = 0)) => ~mOut.ok

(* C8: for positive reserves and 0 < amountOut < reserveOut, the round     *)
(* trip getAmountOut(getAmountIn(amountOut)) delivers at least amountOut.  *)
C8_RoundTripNeverUnderDelivers ==
    (/\ mOp = "roundTrip"
     /\ mIn.reserve_in > 0 /\ mIn.reserve_out > 0
     /\ 0 < mIn.amount /\ mIn.amount < mIn.reserve_out)
        => (mOut.ok /\ mOut.val >= mIn.amount)

C8_Witness ==
    /\ mOp = "roundTrip"
    /\ mIn.reserve_in = 3 /\ mIn.reserve_out = MaxReserve
    /\ mIn.amount = 2 /\ mIn.fee = UtilsDefaultFee
    /\ mOut.ok /\ mOut.val = 3

---------------------------------------------------------------------------
(* Properties of Evt (SpecEvt). *)

(* the callbacks a trigger would reach, in order *)
Listeners ==
    IF singleCallback # Null THEN <<singleCallback>> ELSE multiCallback

(* C5: after any sequence of on and off the two-field representation is    *)
(* the ordered subscriber list, and a trigger in which no handler throws   *)
(* invokes exactly the handlers subscribed then, in subscription order,    *)
(* each with the published value.                                          *)
C5_EvtIsOrderedSubscriberList ==
    /\ Listeners = subscribers
    /\ ~evtLast.threw =>
          evtLast.invoked = [i \in 1..Len(evtLast.before) |->
                               [handler |-> evtLast.before[i],
                                data |-> evtLast.value]]

C5_Witness ==
    /\ evtLast.before = <<3, 1>> /\ evtLast.value = 2 /\ ~evtLast.threw
    /\ Len(evtLast.invoked) = 2
    /\ subscribers = <<1>> /\ singleCallback = Null

(* C6: when a handler throws during a trigger, every other handler         *)
(* subscribed at that moment is still invoked with the published value.    *)
C6_TriggerIsolatesHandlerFailures ==
    \A i \in 1..Len(evtLast.before) :
        \E j \in 1..Len(evtLast.invoked) :
            evtLast.invoked[j] = [handler |-> evtLast.before[i],
                                  data |-> evtLast.value]

(* how many times handler h occurs in a sequence of handlers *)
Count(seq, h) == Cardinality({i \in 1..Len(seq) : seq[i] = h})

(* C14: a trigger invokes every callback registered when it was called,    *)
(* each exactly once, also when a handler calls on or off while the        *)
(* trigger runs, and the trigger does not fail because of such a call (no  *)
(* handler body throws here).                                              *)
C14_TriggerSurvivesReentrantOnOff ==
    throwing = {} =>
        /\ ~evtLast.threw
        /\ \A h \in Handlers :
              Count([j \in 1..Len(evtLast.invoked) |->
                        evtLast.invoked[j].handler], h)
                  = Count(evtLast.before, h)

---------------------------------------------------------------------------
(* Properties of AutoNonceWallet (SpecNonce). *)

(* C1: the Nth call in call order is assigned nonce initial + N - 1 (calls *)
(* start in the order of their index), so no nonce is assigned twice and   *)
(* none is skipped.                                                        *)
C1_NthCallGetsNthNonce ==
    \A c \in 1..MaxCalls :
        calls[c].nonce # -1 => calls[c].nonce = chainNonce + c - 1

---------------------------------------------------------------------------
(* Properties of quotePriceForAmount (SpecQuote). *)

(* the pool's reserve of the base token and of the quote token: reserve0   *)
(* belongs to the pair's token0, which _baseIsFirstToken says is the base  *)
BaseReserve ==
    IF baseIsFirstToken THEN reserves.reserve0 ELSE reserves.reserve1
QuoteReserve ==
    IF baseIsFirstToken THEN reserves.reserve1 ELSE reserves.reserve0

(* C7: a pair created without a fee argument quotes a sale of zero-decimal *)
(* tokens with the fee multiplier 9975/10000: the quote is                 *)
(* floor(a*9975*rq / (rb*10000 + a*9975)) * (1 - slippage) / a.            *)
C7_DefaultFeeIsQuarterPercent ==
    (/\ feeOmitted /\ lastQuote.side = "sell"
     /\ decimals = [base |-> 0, quote |-> 0])
    => LET a == lastQuote.amount
           out == (a * 9975 * QuoteReserve)
                      \div (BaseReserve * 10000 + a * 9975)
       IN  lastQuote.result =
               Ret(Rat(out * (slippageTolerance.den - slippageTolerance.num),
                       slippageTolerance.den * a))

(* C9: for both token orders, the quoted total of a buy (price times base  *)
(* amount) is getAmountIn over (quote reserve, base reserve) times         *)
(* 1 + slippage, and of a sale getAmountOut over (base reserve, quote      *)
(* reserve) times 1 - slippage, amounts converted with the tokens'         *)
(* decimals.                                                               *)
C9_QuoteAppliesSlippageAndOrientation ==
    LET a == lastQuote.amount
        wei == a * Pow10(decimals.base)
        unit == Pow10(decimals.quote)
        s == slippageTolerance
        in == getAmountIn(wei, QuoteReserve, BaseReserve, pairFee)
        out == getAmountOut(wei, BaseReserve, QuoteReserve, pairFee)
        total == RatMulInt(lastQuote.result.val, a)
    IN  /\ lastQuote.side = "buy" =>
             /\ lastQuote.result.ok = in.ok
             /\ in.ok => total = Rat(in.val * (s.den + s.num), unit * s.den)
        /\ lastQuote.side = "sell" =>
             /\ lastQuote.result.ok = out.ok
             /\ out.ok => total = Rat(out.val * (s.den - s.num), unit * s.den)

C9_Witness ==
    /\ lastQuote.side = "buy" /\ lastQuote.amount = 2 /\ lastQuote.result.ok
    /\ ~baseIsFirstToken
    /\ reserves = [reserve0 |-> MaxReserve, reserve1 |-> 5]
    /\ decimals = [base |-> 0, quote |-> 1]
    /\ RatLess(One, lastQuote.result.val)

---------------------------------------------------------------------------
(* Properties of the pair's refresh and of placeOrder (SpecPair). *)

(* C3: a refresh that fails (one that logs an error) leaves the cached     *)
(* reserves and price as they were and publishes nothing; a price is       *)
(* published only by a refresh that logs no error.                         *)
C3_RefreshIsAllOrNothing ==
    [][/\ errors' # errors =>
            (reserves' = reserves /\ price' = price /\ published' = published)
       /\ published' # published => errors' = errors]_vars

ApprovalSubmitted(o) ==
    \E i \in 1..Len(o.txs) : o.txs[i].kind = "approve"
SwapSubmitted(o) ==
    \E i \in 1..Len(o.txs) : o.txs[i].kind # "approve"

(* C2: a swap is submitted only after the allowance was read and, when an  *)
(* approval was sent, after its inclusion wait succeeded; a call whose     *)
(* allowance read, approval send or approval inclusion failed has failed   *)
(* and has submitted no swap.                                              *)
C2_SwapOnlyAfterApprovalIncluded ==
    /\ SwapSubmitted(order) =>
          /\ order.allowanceRead
          /\ ApprovalSubmitted(order) => order.waited
          /\ order.txs[Len(order.txs)].kind # "approve"
    /\ order.failedAt \in {"allowance", "approveSend", "approveWait"} =>
          (order.pc = "failed" /\ ~SwapSubmitted(order))

C2_Witness ==
    /\ order.pc = "done" /\ order.waited
    /\ Len(order.txs) = 2 /\ order.txs[1].kind = "approve"
    /\ order.txs[2].kind = "swapTokensForExactTokens"

(* the allowance read, in the token's units, is lower than the amount the  *)
(* swap spends: the quoted amount of a buy, the base amount of a sale      *)
ReadAllowanceIsLower(o) ==
    LET spend == IF o.side = "buy" THEN o.quoteAmount
                 ELSE [num |-> o.baseAmount, den |-> 1]
        dec == IF o.side = "buy" THEN decimals.quote ELSE decimals.base
    IN  /\ o.allowance # MaxUint256
        /\ o.allowance * spend.den < spend.num * Pow10(dec)

(* C10: placeOrder submits an approval if and only if the allowance it     *)
(* read is lower than the amount the swap spends; with a sufficient        *)
(* allowance a call that returns has sent the swap and nothing else; an    *)
(* approval sent is for the maximum unsigned 256-bit value.                *)
C10_ApprovalIffAllowanceTooLow ==
    /\ ApprovalSubmitted(order) =>
          (order.allowanceRead /\ ReadAllowanceIsLower(order))
    /\ (/\ order.allowanceRead /\ ReadAllowanceIsLower(order)
        /\ order.pc \in {"approveWait", "swapPopulate", "swapSend", "done"})
          => ApprovalSubmitted(order)
    /\ (order.pc = "done" /\ ~ReadAllowanceIsLower(order)) =>
          (Len(order.txs) = 1 /\ order.txs[1].kind # "approve")
    /\ \A i \in 1..Len(order.txs) :
          order.txs[i].kind = "approve" => order.txs[i].value = MaxUint256

C10_Witness ==
    /\ order.pc = "done" /\ order.side = "sell" /\ order.baseAmount = 2
    /\ order.allowanceRead /\ order.allowance = 2
    /\ Len(order.txs) = 1

---------------------------------------------------------------------------
(* Monotonicity of the pricing functions (SpecMath). *)

(* C13 as stated: for positive reserves getAmountOut is non-decreasing in  *)
(* amountIn, and getAmountIn is strictly increasing in amountOut over      *)
(* 0 < amountOut < reserveOut.                                             *)
C13_GetAmountInStrictlyIncreasing ==
    /\ (/\ mOp = "getAmountOut" /\ mIn.reserve_in > 0 /\ mIn.reserve_out > 0)
         => getAmountOut(mIn.amount + 1, mIn.reserve_in, mIn.reserve_out,
                         mIn.fee).val >= mOut.val
    /\ (/\ mOp = "getAmountIn" /\ mIn.reserve_in > 0
        /\ mIn.amount + 1 < mIn.reserve_out)
         => getAmountIn(mIn.amount + 1, mIn.reserve_in, mIn.reserve_out,
                        mIn.fee).val > mOut.val

(* C13 amended: for positive reserves both functions are non-decreasing in *)
(* the traded amount: getAmountOut over every amountIn, getAmountIn over   *)
(* 0 < amountOut < reserveOut (where both return a value).                 *)
C13_PricingIsMonotone ==
    /\ (/\ mOp = "getAmountOut" /\ mIn.reserve_in > 0 /\ mIn.reserve_out > 0)
         => /\ mOut.ok
            /\ getAmountOut(mIn.amount + 1, mIn.reserve_in, mIn.reserve_out,
                            mIn.fee).val >= mOut.val
    /\ (/\ mOp = "getAmountIn" /\ mIn.reserve_in > 0
        /\ mIn.amount + 1 < mIn.reserve_out)
         => /\ mOut.ok
            /\ getAmountIn(mIn.amount + 1, mIn.reserve_in, mIn.reserve_out,
                           mIn.fee).val >= mOut.val

C13_Witness ==
    /\ mOp = "getAmountIn" /\ mIn.fee = UtilsDefaultFee
    /\ mIn.reserve_in = 1 /\ mIn.reserve_out = MaxReserve /\ mIn.amount = 1
    /\ mOut = Ret(1)
    /\ getAmountIn(2, 1, MaxReserve, UtilsDefaultFee) = Ret(1)

---------------------------------------------------------------------------
(* Further properties of AutoNonceWallet (SpecNonce). *)

(* C16: the chain is asked for the transaction count at most once, on the  *)
(* first sendTransaction call; no later call asks again.                   *)
C16_TransactionCountFetchedOnce ==
    /\ fetches <= 1
    /\ fetches = 1 <=> calls[1].pc # "idle"
    /\ fetches = 1 => noncePromise # Null

C16_Witness ==
    /\ fetches = 1
    /\ \A c \in 1..MaxCalls : calls[c].pc = "sent"

(* C19: the nonce of a transaction whose broadcast failed is not given     *)
(* back: the next call (in call order) is assigned the following nonce,    *)
(* and no later call is assigned the failed nonce.                         *)
C19_FailedNonceNotGivenBack ==
    \A c \in 1..MaxCalls :
        (calls[c].pc = "failed" /\ calls[c].nonce # -1) =>
            /\ \A d \in (c + 1)..MaxCalls :
                   calls[d].nonce # -1 => calls[d].nonce # calls[c].nonce
            /\ (c < MaxCalls /\ calls[c + 1].nonce # -1) =>
                   calls[c + 1].nonce = calls[c].nonce + 1

---------------------------------------------------------------------------
(* Further properties of placeOrder and of the refresh (SpecPair,          *)
(* SpecDeadline).                                                          *)

(* the swaps among the transactions the call has handed to the wallet *)
Swaps(o) == {i \in 1..Len(o.txs) : o.txs[i].kind # "approve"}

(* C11: the swap placeOrder submits matches the side: a buy calls          *)
(* swapTokensForExactTokens(base amount, quoted amount, [quote, base]), a  *)
(* sale swapExactTokensForTokens(base amount, quoted amount,               *)
(* [base, quote]); the recipient is the caller's wallet; the call returns  *)
(* once the swap is sent, having waited for no inclusion but an            *)
(* approval's.                                                             *)
C11_SwapMatchesSide ==
    /\ \A i \in Swaps(order) :
         LET tx == order.txs[i]
         IN  /\ tx.first = order.baseAmount
             /\ tx.second = order.quoteAmount
             /\ tx.to = "wallet"
             /\ order.side = "buy" =>
                  (/\ tx.kind = "swapTokensForExactTokens"
                   /\ tx.path = <<"quote", "base">>)
             /\ order.side = "sell" =>
                  (/\ tx.kind = "swapExactTokensForTokens"
                   /\ tx.path = <<"base", "quote">>)
    /\ order.pc = "done" =>
         /\ Cardinality(Swaps(order)) = 1
         /\ Len(order.txs) \in Swaps(order)
         /\ order.waited => ApprovalSubmitted(order)

C11_Witness ==
    /\ order.pc = "done" /\ order.side = "sell" /\ order.baseAmount = 2
    /\ Len(order.txs) = 1
    /\ order.txs[1].kind = "swapExactTokensForTokens"
    /\ order.txs[1].path = <<"base", "quote">>
    /\ order.txs[1].first = 2 /\ order.txs[1].second = order.quoteAmount

(* the quoted amount placeOrder computes from the reserves cached now *)
QuotedNow(baseAmount, side) ==
    RatMulInt(quotePriceForAmount(baseAmount, side).val, baseAmount)

(* C15: the amounts of the swap are fixed when placeOrder is called: the   *)
(* quoted amount is computed from the reserves cached at that instant,     *)
(* neither amount changes while the call is suspended (whatever refresh    *)
(* lands), and the swap submitted carries exactly these amounts.           *)
C15_AmountsFixedAtCall ==
    [][/\ (order.pc \in {"idle", "done", "failed"} /\ order'.pc = "allowance")
            => order'.quoteAmount = QuotedNow(order'.baseAmount, order'.side)
       /\ order.pc \notin {"idle", "done", "failed"}
            => /\ order'.baseAmount = order.baseAmount
               /\ order'.quoteAmount = order.quoteAmount
               /\ order'.side = order.side
       /\ Len(order'.txs) > Len(order.txs)
            => LET tx == order'.txs[Len(order'.txs)]
               IN  tx.kind # "approve" =>
                      /\ tx.first = order.baseAmount
                      /\ tx.second = order.quoteAmount]_vars

C15_Witness ==
    /\ order.pc = "done" /\ order.side = "buy"
    /\ quotePriceForAmount(order.baseAmount, order.side).ok
    /\ order.txs[Len(order.txs)].second
         # QuotedNow(order.baseAmount, order.side)
    /\ Len(published) > 0

(* C17: the two cached reserves always come from one getReserves answer:   *)
(* every answer adds up to PoolTotal, and a pair mixing two different      *)
(* answers would not.                                                      *)
C17_ReservesFromOneResponse ==
    /\ reserves \in TickReserves
    /\ reserves.reserve0 + reserves.reserve1 = PoolTotal

C17_Witness ==
    /\ ticks = MaxTicks /\ refreshes = {} /\ Len(published) = 2
    /\ published[1] # published[2]
    /\ reserves = [reserve0 |-> 1, reserve1 |-> PoolTotal - 1]

(* C18: when the refresh of a tick completes after the refresh of a later  *)
(* tick has (no refresh having failed), it does not replace the cached     *)
(* reserves, which are the later tick's.                                   *)
C18_EarlierTickNeverOverwritesLater ==
    [][\A t \in refreshes \ refreshes' :
          (/\ errors' = 0
           /\ \E u \in (t + 1)..ticks : u \notin refreshes)
             => reserves' = reserves]_vars

(* C20 as stated: the deadline of a submitted swap is later than the time  *)
(* the swap was submitted.                                                 *)
C20_DeadlineAfterSubmission ==
    \A i \in Swaps(order) : order.txs[i].deadline > order.sentAt

(* C20 amended: the deadline of a submitted swap is the time placeOrder    *)
(* was called plus five minutes, whatever time the allowance read and the  *)
(* approval took; it is later than the submission exactly when these took  *)
(* less than five minutes.                                                 *)
C20_DeadlineIsCallTimePlusWindow ==
    \A i \in Swaps(order) :
        /\ order.txs[i].deadline = order.calledAt + DeadlineMinutes
        /\ order.txs[i].deadline > order.sentAt
             <=> order.sentAt - order.calledAt < DeadlineMinutes

C20_Witness ==
    /\ order.pc = "done" /\ order.waited
    /\ order.calledAt = 1 /\ order.sentAt = MaxTime
    /\ order.txs[Len(order.txs)].deadline = MaxTime

---------------------------------------------------------------------------
(* Properties of createEasyAMMPair (SpecCreate). *)

(* C12: createEasyAMMPair is all-or-nothing: once a discovery call has     *)
(* failed the call has failed and no pair is returned, then or later; a    *)
(* pair is returned only when every discovery call has answered.           *)
C12_CreationIsAtomic ==
    /\ creation.failed # {} => (creation.pc = "failed" /\ ~creation.pair.made)
    /\ creation.pair.made <=> creation.pc = "returned"
    /\ creation.pc = "returned" =>
         (creation.answered = DiscoveryCalls /\ creation.pending = {})

C12_Witness ==
    /\ creation.pc = "returned" /\ creation.pair.made
    /\ creation.pair.reserves = [reserve0 |-> 1, reserve1 |-> PoolTotal - 1]
    /\ creation.tokens = 2
===========================================================================
